---- MODULE Spec2Model ----
(***************************************************************************)
(* Model of ftm_ai_analyzer.py: the FTMAnalyzer pipeline run by main().    *)
(*                                                                         *)
(* A table is a sequence of rows; a row is a record with one field per CSV *)
(* column that the code reads (Flow, Time, Distance, Throughput, RSSI,     *)
(* Loss, AI_Decision).  Numeric cells are integers in the column's unit. A *)
(* floating-point mean is kept as an exact fraction, so comparisons with   *)
(* the thresholds are exact.                                               *)
(***************************************************************************)
EXTENDS Integers, Sequences, FiniteSets, TLC

VARIABLES
    csv,              \* the file result/ftm_metrics.csv: "missing", "empty" (zero bytes) or "table"
    csvRows,          \* the rows of the file when csv = "table"
    outDir,           \* the directory result/: "absent", "readonly" or "writable"
    pc,               \* position of main(): which call comes next
    df,               \* self.df
    sta1_data,        \* self.sta1_data
    sta2_data,        \* self.sta2_data
    phases,           \* phase1..phase4 of analyze_performance
    phase_out,        \* the four "Avg Throughput" values as printed
    recommendations,  \* the list returned by ai_recommendations
    console,          \* the messages printed, in order
    files,            \* the files written under result/
    report,           \* the [AI DECISION SUMMARY] lines of ftm_summary_report.txt
    exitStatus        \* exit status of the process once pc = "exited"

vars == <<csv, csvRows, outDir, pc, df, sta1_data, sta2_data, phases, phase_out,
          recommendations, console, files, report, exitStatus>>

-----------------------------------------------------------------------------
(* Bounds *)

MaxRows == 3          \* rows in a table
MaxFaultRows == 1     \* rows in a table when the environment is faulty too

-----------------------------------------------------------------------------
(* Program constants *)

STATIC_FLOW == "AP1-STA1"
MOBILE_FLOW == "AP2-STA2"

Phase1End == 5
Phase2End == 10
Phase3End == 15
FarDistance == 15
ThroughputFloor == 3
RssiFloor == -75
LossCeiling == 10
StdCeilingNum == 1            \* 0.5 = StdCeilingNum / StdCeilingDen
StdCeilingDen == 2

Missing == "<NA>"             \* an empty AI_Decision cell (NaN after read_csv)

FILE_ANALYSIS == "ftm_analysis.png"
FILE_TIMELINE == "ai_decision_timeline.png"
FILE_REPORT == "ftm_summary_report.txt"

MSG_BANNER == "FTM ADAPTIVE WIFI AI ANALYZER"
MSG_NOT_FOUND == "Error: result/ftm_metrics.csv not found!"
MSG_RUN_SIM == "Please run the NS-3 simulation first."
MSG_LOADED == "Loaded data points from simulation"
MSG_ANALYSIS == "FTM ADAPTIVE WIFI - AI PERFORMANCE ANALYSIS"
MSG_PHASES == "Movement Phase Analysis:"
MSG_RECS == "AI RECOMMENDATIONS"
MSG_REC_ITEM == "[priority] issue / Metric / Recommended Action"
MSG_NO_ISSUES == "No critical issues detected. System performing optimally."
MSG_SAVED_ANALYSIS == "Saved visualization: result/ftm_analysis.png"
MSG_SAVED_TIMELINE == "Saved AI decision timeline: result/ai_decision_timeline.png"
MSG_SAVED_REPORT == "Saved summary report: result/ftm_summary_report.txt"
MSG_COMPLETE == "ANALYSIS COMPLETE"
MSG_TRACEBACK == "Traceback (most recent call last): ..."

-----------------------------------------------------------------------------
(* Input tables *)

Row(flow, time, dist, thr, rssi, loss, dec) ==
    [Flow |-> flow, Time |-> time, Distance |-> dist, Throughput |-> thr,
     RSSI |-> rssi, Loss |-> loss, AI_Decision |-> dec]

\* a row of a flow the analyzer does not know
OtherRow == Row("AP3-STA3", 0, 5, 4, -60, 0, "maintain")

\* rows that exercise the advisory rules
AdvisorRows ==
    { Row(MOBILE_FLOW, 0, d, t, r, l, "maintain") :
        d \in {15, 16}, t \in {2, 4}, r \in {-76, -74}, l \in {10, 11} }
    \cup { Row(STATIC_FLOW, 0, 5, t, -60, l, "maintain") : t \in {4, 5}, l \in {0, 11} }
    \cup { OtherRow }

\* rows that exercise the movement phases
PhaseRows ==
    { Row(MOBILE_FLOW, t, 5, 4, -60, 0, "maintain") :
        t \in {0, 5, 6, 10, 11, 15, 16} }
    \cup { Row(STATIC_FLOW, t, 5, 4, -60, 0, "maintain") : t \in {5, 16} }
    \cup { OtherRow }

\* rows that exercise the decision summary
DecisionRows ==
    { Row(MOBILE_FLOW, 0, 5, 4, -60, 0, d) :
        d \in {"maintain", "increase_power", "scan_channels", Missing} }
    \cup { Row(STATIC_FLOW, 0, 5, 4, -60, 0, d) : d \in {"maintain", Missing} }
    \cup { OtherRow }

TablesOver(rows, n) == UNION { [1..k -> rows] : k \in 0..n }

Tables == TablesOver(AdvisorRows, MaxRows) \cup TablesOver(PhaseRows, MaxRows)
            \cup TablesOver(DecisionRows, MaxRows)

FaultTables == TablesOver(DecisionRows, MaxFaultRows)

-----------------------------------------------------------------------------
(* pandas: selection, reductions, formatting *)

NaN == [nan |-> TRUE, num |-> 0, den |-> 1]

RECURSIVE Sum(_, _)
\* sum of column col over the rows of s
Sum(s, col) == IF s = <<>> THEN 0 ELSE s[1][col] + Sum(Tail(s), col)

RECURSIVE SumSq(_, _)
SumSq(s, col) == IF s = <<>> THEN 0 ELSE s[1][col] * s[1][col] + SumSq(Tail(s), col)

\* Series.mean(): NaN over no rows
mean(s, col) ==
    IF Len(s) = 0 THEN NaN ELSE [nan |-> FALSE, num |-> Sum(s, col), den |-> Len(s)]

\* Series.std() squared (ddof = 1): NaN over fewer than two rows
var(s, col) ==
    IF Len(s) < 2 THEN NaN
    ELSE [nan |-> FALSE,
          num |-> Len(s) * SumSq(s, col) - Sum(s, col) * Sum(s, col),
          den |-> Len(s) * (Len(s) - 1)]

\* m < k on floats: any comparison with NaN is False
Less(m, k) == ~m.nan /\ m.num < k * m.den

\* sqrt(v) > p/q on floats
StdGreater(v, p, q) == ~v.nan /\ v.num * q * q > p * p * v.den

\* a / b rounded to the nearest integer (b > 0)
RoundDiv(a, b) == (2 * a + b) \div (2 * b)

\* f"{m:.<digits>f}" with scale = 10^digits: the text "nan", or the decimal
\* val / scale
Fmt(m, scale) ==
    IF m.nan THEN [nan |-> TRUE, val |-> 0, scale |-> scale]
    ELSE [nan |-> FALSE, val |-> RoundDiv(m.num * scale, m.den), scale |-> scale]

RECURSIVE SqrtSearch(_, _, _)
\* the largest r in lo..hi with r - 1/2 <= 1000 * sqrt(v.num / v.den)
SqrtSearch(lo, hi, v) ==
    IF lo = hi THEN lo
    ELSE LET mid == (lo + hi + 1) \div 2
         IN  IF (2 * mid - 1) * (2 * mid - 1) * v.den <= 4000000 * v.num
             THEN SqrtSearch(mid, hi, v)
             ELSE SqrtSearch(lo, mid - 1, v)

\* f"{std:.3f}" of the standard deviation whose square is v
FmtStd(v) ==
    IF v.nan THEN [nan |-> TRUE, val |-> 0, scale |-> 1000]
    ELSE [nan |-> FALSE, val |-> SqrtSearch(0, 4096, v), scale |-> 1000]

\* f"{n}" of an integer
FmtInt(n) == [nan |-> FALSE, val |-> n, scale |-> 1]

RECURSIVE Keys(_, _)
\* the distinct values of s in order of first appearance, missing values dropped
Keys(s, seen) ==
    IF s = <<>> THEN <<>>
    ELSE IF s[1] = Missing \/ s[1] \in seen THEN Keys(Tail(s), seen)
    ELSE <<s[1]>> \o Keys(Tail(s), seen \cup {s[1]})

Count(s, k) == Cardinality({i \in 1..Len(s) : s[i] = k})

RECURSIVE InsertDesc(_, _)
\* x placed after every entry of the descending sequence whose count is >= x's
InsertDesc(x, sorted) ==
    IF sorted = <<>> THEN <<x>>
    ELSE IF sorted[1].count >= x.count THEN <<sorted[1]>> \o InsertDesc(x, Tail(sorted))
    ELSE <<x>> \o sorted

RECURSIVE SortDesc(_, _)
SortDesc(s, acc) ==
    IF s = <<>> THEN acc ELSE SortDesc(Tail(s), InsertDesc(s[1], acc))

\* Series.value_counts(): one entry per distinct non-missing value, by
\* descending count, ties in order of first appearance
value_counts(s) ==
    LET ks == Keys(s, {})
    IN  SortDesc([i \in 1..Len(ks) |-> [decision |-> ks[i], count |-> Count(s, ks[i])]], <<>>)

Column(s, col) == [i \in 1..Len(s) |-> s[i][col]]

\* the mobile subset taken as "every row that is not static"
FlowSubset_else(table, label) ==
    IF label = MOBILE_FLOW THEN SelectSeq(table, LAMBDA r : r.Flow # STATIC_FLOW)
    ELSE SelectSeq(table, LAMBDA r : r.Flow = label)

\* df[df['Flow'] == label]
FlowSubset(table, label) == SelectSeq(table, LAMBDA r : r.Flow = label)

-----------------------------------------------------------------------------
(* analyze_performance: the movement phases *)

phase1(sta2) == SelectSeq(sta2, LAMBDA r : r.Time <= Phase1End)
\* phase 2 with its lower boundary closed
phase2_closed(sta2) ==
    SelectSeq(sta2, LAMBDA r : r.Time >= Phase1End /\ r.Time <= Phase2End)
phase2(sta2) == SelectSeq(sta2, LAMBDA r : r.Time > Phase1End /\ r.Time <= Phase2End)
phase3(sta2) == SelectSeq(sta2, LAMBDA r : r.Time > Phase2End /\ r.Time <= Phase3End)
phase4(sta2) == SelectSeq(sta2, LAMBDA r : r.Time > Phase3End)

\* the value printed after "Avg Throughput = " for one phase
PhaseAvg(phase) == Fmt(mean(phase, "Throughput"), 1000)

-----------------------------------------------------------------------------
(* ai_recommendations: the four rules *)

ISSUE_THROUGHPUT == "Severe throughput degradation at far distances"
ISSUE_RSSI == "Weak signal strength at far distances"
ISSUE_LOSS == "High packet loss detected"
ISSUE_STD == "Throughput variability in static station"

far_distance(sta2) == SelectSeq(sta2, LAMBDA r : r.Distance > FarDistance)
\* the loss filter with ">="
high_loss_ge(sta2) == SelectSeq(sta2, LAMBDA r : r.Loss >= LossCeiling)
high_loss(sta2) == SelectSeq(sta2, LAMBDA r : r.Loss > LossCeiling)

ThroughputRule(far) ==
    IF Less(mean(far, "Throughput"), ThroughputFloor)
    THEN << [priority |-> "HIGH", issue |-> ISSUE_THROUGHPUT,
             metric |-> Fmt(mean(far, "Throughput"), 1000),
             action |-> "Increase TX power by 3-4 dBm or implement beamforming"] >>
    ELSE <<>>

RssiRule(far) ==
    IF Less(mean(far, "RSSI"), RssiFloor)
    THEN << [priority |-> "MEDIUM", issue |-> ISSUE_RSSI,
             metric |-> Fmt(mean(far, "RSSI"), 100),
             action |-> "Deploy additional AP or use directional antennas"] >>
    ELSE <<>>

\* the signal rule chained to the throughput rule with "elif"
FarRules_elif(sta2) ==
    LET far == far_distance(sta2)
    IN  IF Len(far) > 0
        THEN (IF ThroughputRule(far) # <<>> THEN ThroughputRule(far) ELSE RssiRule(far))
        ELSE <<>>

\* lines 94-113
FarRules(sta2) ==
    LET far == far_distance(sta2)
    IN  IF Len(far) > 0 THEN ThroughputRule(far) \o RssiRule(far) ELSE <<>>

\* lines 115-123
LossRule(sta2) ==
    IF Len(high_loss(sta2)) > 0
    THEN << [priority |-> "MEDIUM", issue |-> ISSUE_LOSS,
             metric |-> FmtInt(Len(high_loss(sta2))),
             action |-> "Implement rate adaptation or increase retransmission limit"] >>
    ELSE <<>>

\* lines 125-134
StabilityRule(sta1) ==
    IF Len(sta1) > 0
       /\ StdGreater(var(sta1, "Throughput"), StdCeilingNum, StdCeilingDen)
    THEN << [priority |-> "LOW", issue |-> ISSUE_STD,
             metric |-> FmtStd(var(sta1, "Throughput")),
             action |-> "Check for interference or adjust channel selection"] >>
    ELSE <<>>

\* the static-flow rule evaluated first
Recommend_static_first(sta1, sta2) ==
    StabilityRule(sta1)
        \o (IF Len(sta2) > 0 THEN FarRules(sta2) \o LossRule(sta2) ELSE <<>>)

\* the list built by lines 90-134
Recommend(sta1, sta2) ==
    (IF Len(sta2) > 0 THEN FarRules(sta2) \o LossRule(sta2) ELSE <<>>)
        \o StabilityRule(sta1)

\* the value handed back to the caller (line 145)
Returned(recs) == recs

\* the "else" branch of line 142 left out
PrintRecommendations_silent(recs) ==
    IF recs # <<>> THEN [i \in 1..Len(recs) |-> MSG_REC_ITEM] ELSE <<>>

\* what lines 137-143 print for the list
PrintRecommendations(recs) ==
    IF recs # <<>> THEN [i \in 1..Len(recs) |-> MSG_REC_ITEM] ELSE <<MSG_NO_ISSUES>>

-----------------------------------------------------------------------------
(* plot_ai_decisions, export_summary_report *)

\* the file plot_ai_decisions saves (lines 260, 302-303)
TimelineFiles(sta2) == IF Len(sta2) > 0 THEN {FILE_TIMELINE} ELSE {}

\* the lines written under [AI DECISION SUMMARY] (lines 332, 344-346)
DecisionLines(sta2) ==
    IF Len(sta2) > 0 THEN value_counts(Column(sta2, "AI_Decision")) ELSE <<>>

-----------------------------------------------------------------------------
(* The run of main() *)

Init ==
    /\ \/ /\ csv = "table"
          /\ outDir = "writable"
          /\ csvRows \in Tables
       \/ /\ csv \in {"missing", "empty", "table"}
          /\ outDir \in {"absent", "readonly", "writable"}
          \* result/ftm_metrics.csv exists only inside an existing result/
          /\ csv # "missing" => outDir # "absent"
          /\ csvRows \in (IF csv = "table" THEN FaultTables ELSE {<<>>})
    /\ pc = "main"
    /\ df = <<>>
    /\ sta1_data = <<>>
    /\ sta2_data = <<>>
    /\ phases = <<>>
    /\ phase_out = <<>>
    /\ recommendations = <<>>
    /\ console = <<>>
    /\ files = {}
    /\ report = <<>>
    /\ exitStatus = 0

\* the existence test always passing
path_exists_always(file) == TRUE

\* os.path.exists(csv_path) (line 17)
path_exists(file) == file # "missing"

\* an exception nobody catches: the interpreter prints the traceback and the
\* process ends with status 1
Uncaught ==
    /\ pc' = "exited"
    /\ exitStatus' = 1

\* main() up to and including FTMAnalyzer() (lines 370-378, 15-31)
FTMAnalyzer_init ==
    /\ pc = "main"
    /\ IF ~path_exists(csv)
       THEN /\ console' = console \o <<MSG_BANNER, MSG_NOT_FOUND, MSG_RUN_SIM>>
            /\ pc' = "exited"
            /\ exitStatus' = 1
            /\ UNCHANGED <<df, sta1_data, sta2_data>>
       ELSE IF csv # "table"
       THEN \* pd.read_csv raises: EmptyDataError on a file without columns
            \* (FileNotFoundError on no file at all)
            /\ console' = console \o <<MSG_BANNER, MSG_TRACEBACK>>
            /\ Uncaught
            /\ UNCHANGED <<df, sta1_data, sta2_data>>
       ELSE /\ df' = csvRows
            /\ sta1_data' = FlowSubset(csvRows, STATIC_FLOW)
            /\ sta2_data' = FlowSubset(csvRows, MOBILE_FLOW)
            /\ console' = console \o <<MSG_BANNER, MSG_LOADED>>
            /\ pc' = "analyze_performance"
            /\ UNCHANGED exitStatus
    /\ UNCHANGED <<csv, csvRows, outDir, phases, phase_out, recommendations, files, report>>

\* lines 33-82
analyze_performance ==
    /\ pc = "analyze_performance"
    /\ IF Len(sta2_data) > 0
       THEN /\ phases' = <<phase1(sta2_data), phase2(sta2_data),
                           phase3(sta2_data), phase4(sta2_data)>>
            /\ phase_out' = <<PhaseAvg(phase1(sta2_data)), PhaseAvg(phase2(sta2_data)),
                              PhaseAvg(phase3(sta2_data)), PhaseAvg(phase4(sta2_data))>>
            /\ console' = console \o <<MSG_ANALYSIS, MSG_PHASES>>
       ELSE /\ console' = console \o <<MSG_ANALYSIS>>
            /\ UNCHANGED <<phases, phase_out>>
    /\ pc' = "ai_recommendations"
    /\ UNCHANGED <<csv, csvRows, outDir, df, sta1_data, sta2_data, recommendations,
                   files, report, exitStatus>>

\* lines 84-145
ai_recommendations ==
    /\ pc = "ai_recommendations"
    /\ LET recs == Recommend(sta1_data, sta2_data)
       IN  /\ console' = console \o <<MSG_RECS>> \o PrintRecommendations(recs)
           /\ recommendations' = Returned(recs)
    /\ pc' = "visualize_results"
    /\ UNCHANGED <<csv, csvRows, outDir, df, sta1_data, sta2_data, phases, phase_out,
                   files, report, exitStatus>>

\* lines 147-253 and plot_ai_decisions, lines 255-305
visualize_results ==
    /\ pc = "visualize_results"
    /\ IF outDir # "writable"
       THEN \* plt.savefig raises OSError
            /\ console' = console \o <<MSG_TRACEBACK>>
            /\ Uncaught
            /\ UNCHANGED files
       ELSE /\ files' = files \cup {FILE_ANALYSIS} \cup TimelineFiles(sta2_data)
            /\ console' = console \o <<MSG_SAVED_ANALYSIS>>
                   \o (IF TimelineFiles(sta2_data) # {} THEN <<MSG_SAVED_TIMELINE>> ELSE <<>>)
            /\ pc' = "export_summary_report"
            /\ UNCHANGED exitStatus
    /\ UNCHANGED <<csv, csvRows, outDir, df, sta1_data, sta2_data, phases, phase_out,
                   recommendations, report>>

\* lines 307-348
export_summary_report ==
    /\ pc = "export_summary_report"
    /\ files' = files \cup {FILE_REPORT}
    /\ report' = DecisionLines(sta2_data)
    /\ console' = console \o <<MSG_SAVED_REPORT>>
    /\ pc' = "complete"
    /\ UNCHANGED <<csv, csvRows, outDir, df, sta1_data, sta2_data, phases, phase_out,
                   recommendations, exitStatus>>

\* the end of run_complete_analysis and of main (lines 361-368, 379)
complete ==
    /\ pc = "complete"
    /\ console' = console \o <<MSG_COMPLETE, FILE_ANALYSIS, FILE_TIMELINE, FILE_REPORT>>
    /\ pc' = "exited"
    /\ exitStatus' = 0
    /\ UNCHANGED <<csv, csvRows, outDir, df, sta1_data, sta2_data, phases, phase_out,
                   recommendations, files, report>>

Next ==
    \/ FTMAnalyzer_init
    \/ analyze_performance
    \/ ai_recommendations
    \/ visualize_results
    \/ export_summary_report
    \/ complete

Spec == Init /\ [][Next]_vars

-----------------------------------------------------------------------------
(* Vocabulary of the properties, stated on the rows themselves *)

Ran(msg) == \E i \in 1..Len(console) : console[i] = msg

RECURSIVE SetSum(_, _, _)
\* sum over the positions I of column col of table t
SetSum(t, I, col) ==
    IF I = {} THEN 0
    ELSE LET i == CHOOSE x \in I : TRUE IN t[i][col] + SetSum(t, I \ {i}, col)

FarPositions == {i \in 1..Len(sta2_data) : sta2_data[i].Distance > 15}
LossPositions == {i \in 1..Len(sta2_data) : sta2_data[i].Loss > 10}

CondThroughput ==
    FarPositions # {}
    /\ SetSum(sta2_data, FarPositions, "Throughput") < 3 * Cardinality(FarPositions)
CondRssi ==
    FarPositions # {}
    /\ SetSum(sta2_data, FarPositions, "RSSI") < (-75) * Cardinality(FarPositions)
CondLoss == LossPositions # {}

RECURSIVE PairSq(_, _)
\* sum over the pairs i < j of (x[i] - x[j])^2
PairSq(x, n) ==
    IF n < 2 THEN 0
    ELSE LET row == [i \in 1..(n - 1) |-> [d |-> (x[i] - x[n]) * (x[i] - x[n])]]
         IN  SetSum(row, 1..(n - 1), "d") + PairSq(x, n - 1)

\* sample standard deviation of the static throughput > 0.5, i.e.
\* sum_{i<j} (x_i - x_j)^2 / (n (n-1)) > 1/4
CondStd ==
    LET x == [i \in 1..Len(sta1_data) |-> sta1_data[i].Throughput]
        n == Len(x)
    IN  n >= 2 /\ 4 * PairSq(x, n) > n * (n - 1)

Entries(issue) == {i \in 1..Len(recommendations) : recommendations[i].issue = issue}
Emitted(issue) == Entries(issue) # {}

Advised == Ran(MSG_RECS)
Loaded == Ran(MSG_LOADED)
PhasesDone == Ran(MSG_PHASES)
AllOutputs == {FILE_ANALYSIS, FILE_TIMELINE, FILE_REPORT}

-----------------------------------------------------------------------------
(* Properties *)

\* C1: once ai_recommendations has run on a mobile flow with at least one
\* row farther than 15, the HIGH throughput recommendation is in the list
\* iff the mean throughput of the far rows is < 3.0, and the MEDIUM signal
\* recommendation is in the list iff their mean RSSI is < -75, each
\* whatever the other does and each at most once.
C1_FarRulesIndependent ==
    (Advised /\ FarPositions # {}) =>
        /\ Emitted(ISSUE_THROUGHPUT) <=> CondThroughput
        /\ Emitted(ISSUE_RSSI) <=> CondRssi
        /\ Cardinality(Entries(ISSUE_THROUGHPUT)) <= 1
        /\ Cardinality(Entries(ISSUE_RSSI)) <= 1
        /\ \A i \in Entries(ISSUE_THROUGHPUT) : recommendations[i].priority = "HIGH"
        /\ \A i \in Entries(ISSUE_RSSI) : recommendations[i].priority = "MEDIUM"

\* C1 witness: two far rows whose mean RSSI is < -75 while their mean
\* throughput is exactly 3.0: the signal recommendation alone is in the list
C1_Witness ==
    /\ Advised
    /\ Cardinality(FarPositions) = 2
    /\ SetSum(sta2_data, FarPositions, "Throughput") = 6
    /\ CondRssi
    /\ Emitted(ISSUE_RSSI) /\ ~Emitted(ISSUE_THROUGHPUT)

\* C2 as stated: when no rule condition holds, the value returned by
\* ai_recommendations is something other than the empty list.
C2_ExplicitNoIssuesResult ==
    (Advised /\ ~CondThroughput /\ ~CondRssi /\ ~CondLoss /\ ~CondStd) =>
        recommendations # <<>>

\* C2 amended: when no rule condition holds, ai_recommendations returns the
\* empty list and prints the "no critical issues" line; that line is
\* printed exactly when the returned list is empty.
C2_NoIssuesIsPrinted ==
    Advised =>
        /\ (~CondThroughput /\ ~CondRssi /\ ~CondLoss /\ ~CondStd) =>
               (recommendations = <<>> /\ Ran(MSG_NO_ISSUES))
        /\ Ran(MSG_NO_ISSUES) <=> recommendations = <<>>

\* C2 witness: a loaded table with mobile and static rows on which no rule
\* condition holds
C2_Witness ==
    /\ Advised
    /\ Len(sta1_data) > 0 /\ Len(sta2_data) > 0
    /\ ~CondThroughput /\ ~CondRssi /\ ~CondLoss /\ ~CondStd
    /\ Ran(MSG_NO_ISSUES)

\* C3: the four phases partition the mobile flow: every mobile row is in
\* exactly one phase, and the phase sizes sum to the size of the flow.
C3_PhasesPartition ==
    PhasesDone =>
        /\ Len(phases[1]) + Len(phases[2]) + Len(phases[3]) + Len(phases[4])
              = Len(sta2_data)
        /\ \A i \in 1..Len(sta2_data) :
              Cardinality({k \in 1..4 :
                  \E j \in 1..Len(phases[k]) : phases[k][j] = sta2_data[i]}) = 1

\* C3 witness: a mobile flow with a row at each of the boundaries 5, 10, 15
C3_Witness ==
    /\ PhasesDone
    /\ \A t \in {5, 10, 15} : \E i \in 1..Len(sta2_data) : sta2_data[i].Time = t

\* C4 as stated: a phase without rows is never printed as NaN.
C4_EmptyPhaseNotNaN ==
    PhasesDone => \A k \in 1..4 : phases[k] = <<>> => ~phase_out[k].nan

\* C5 as stated: the static and the mobile subset together hold every
\* loaded row.
C5_EveryRowInAFlow ==
    Loaded => Len(sta1_data) + Len(sta2_data) = Len(df)

\* C5 amended: the static subset holds exactly the rows labelled AP1-STA1
\* and the mobile subset exactly the rows labelled AP2-STA2, so the two are
\* disjoint and their sizes sum to the number of rows carrying one of the
\* two labels (to len(df) when every row does).
C5_SubsetsAreTheLabelledRows ==
    Loaded =>
        LET S1 == {i \in 1..Len(df) : df[i].Flow = "AP1-STA1"}
            S2 == {i \in 1..Len(df) : df[i].Flow = "AP2-STA2"}
        IN  /\ Len(sta1_data) = Cardinality(S1)
            /\ Len(sta2_data) = Cardinality(S2)
            /\ \A i \in 1..Len(sta1_data) : sta1_data[i].Flow = "AP1-STA1"
            /\ \A i \in 1..Len(sta2_data) : sta2_data[i].Flow = "AP2-STA2"
            /\ Len(sta1_data) + Len(sta2_data) = Cardinality(S1 \cup S2)
            /\ (S1 \cup S2 = 1..Len(df)) =>
                   Len(sta1_data) + Len(sta2_data) = Len(df)

\* C5 witness: a table with a static row, a mobile row and a row of a
\* third flow
C5_Witness ==
    /\ Loaded
    /\ Len(sta1_data) > 0 /\ Len(sta2_data) > 0
    /\ Len(sta1_data) + Len(sta2_data) < Len(df)

\* C6 as stated: the counts of the decision summary sum to the number of
\* mobile rows.
C6_DecisionCountsSumToMobileRows ==
    (FILE_REPORT \in files /\ Len(sta2_data) > 0) =>
        SetSum(report, 1..Len(report), "count") = Len(sta2_data)

\* C7: the list has one MEDIUM packet-loss recommendation when some mobile
\* row has loss > 10 and none otherwise, and its metric is the number of
\* those rows.
C7_PacketLossRule ==
    Advised =>
        /\ Cardinality(Entries(ISSUE_LOSS)) = (IF LossPositions # {} THEN 1 ELSE 0)
        /\ \A i \in Entries(ISSUE_LOSS) :
              /\ recommendations[i].priority = "MEDIUM"
              /\ recommendations[i].metric = [nan |-> FALSE,
                                               val |-> Cardinality(LossPositions),
                                               scale |-> 1]

\* C7 witness: two rows over 10 and one row at exactly 10, near the AP
C7_Witness ==
    /\ Advised
    /\ Cardinality(LossPositions) = 2
    /\ \E i \in 1..Len(sta2_data) : sta2_data[i].Loss = 10
    /\ FarPositions = {}
    /\ Emitted(ISSUE_LOSS)

Rank(issue) ==
    CASE issue = ISSUE_THROUGHPUT -> 1
      [] issue = ISSUE_RSSI -> 2
      [] issue = ISSUE_LOSS -> 3
      [] issue = ISSUE_STD -> 4
      [] OTHER -> 0

PriorityOf(issue) ==
    CASE issue = ISSUE_THROUGHPUT -> "HIGH"
      [] issue = ISSUE_RSSI -> "MEDIUM"
      [] issue = ISSUE_LOSS -> "MEDIUM"
      [] issue = ISSUE_STD -> "LOW"
      [] OTHER -> "NONE"

\* C8: the returned list holds each rule's recommendation at most once and
\* in the order throughput, signal, packet loss, stability.
C8_RuleOrder ==
    /\ Len(recommendations) <= 4
    /\ \A i \in 1..Len(recommendations) :
          /\ Rank(recommendations[i].issue) \in 1..4
          /\ recommendations[i].priority = PriorityOf(recommendations[i].issue)
    /\ \A i, j \in 1..Len(recommendations) :
          i < j => Rank(recommendations[i].issue) < Rank(recommendations[j].issue)

\* C8 witness: all four rules fire
C8_Witness ==
    /\ Advised
    /\ Len(recommendations) = 4

\* C9 as stated: a run that completes has written all three outputs.
C9_AllThreeOutputsWritten ==
    (pc = "exited" /\ exitStatus = 0) => files = AllOutputs

\* C10 as stated: the process ends with a non-zero status only when the
\* input file is missing.
C10_NonZeroOnlyWhenMissing ==
    (pc = "exited" /\ exitStatus # 0) => csv = "missing"

\* C10 amended: on a missing input the run prints the instruction and ends
\* with status 1 with nothing loaded, analysed or written; a non-zero
\* status otherwise comes only from an exception that nobody catches.
C10_MissingInputExits ==
    pc = "exited" =>
        /\ csv = "missing" =>
              /\ exitStatus = 1
              /\ console = <<MSG_BANNER, MSG_NOT_FOUND, MSG_RUN_SIM>>
              /\ df = <<>> /\ phase_out = <<>> /\ recommendations = <<>>
              /\ files = {} /\ report = <<>>
        /\ exitStatus # 0 <=> (csv = "missing" \/ Ran(MSG_TRACEBACK))

\* C10 witness: the run has ended on a missing input
C10_Witness ==
    /\ pc = "exited"
    /\ csv = "missing"
    /\ Ran(MSG_RUN_SIM)

====
